---- MODULE Spec2Model ----
(***************************************************************************)
(* A model of run.py: a command that reads a YAML configuration, lists the *)
(* *.csv files of a directory, opens one PostgreSQL connection and calls   *)
(* import_file_to_database once per file (CREATE TABLE IF NOT EXISTS, then *)
(* COPY ... FROM stdin), and closes the connection in a finally block.     *)
(*                                                                         *)
(* The state is run()'s position and locals, the records handed to the     *)
(* logging module, the database (committed tables), the session of the     *)
(* shared connection (its transaction status and the tables it sees), and  *)
(* one record per call of import_file_to_database.                         *)
(***************************************************************************)
EXTENDS Integers, Sequences, FiniteSets, TLC

VARIABLES
    cfgFile,    \* what the --config path holds (input, fixed for the run)
    directory,  \* what the target path holds (input, fixed for the run)
    dbUp,       \* whether connect(**config['db']) can reach the server (input)
    database,   \* committed tables of the server: table name -> [exists, rows]
    pc,         \* position in run()
    config,     \* run()'s local `config` (result of read_yaml_config)
    files,      \* run()'s local `files`
    db_conn,    \* run()'s local `db_conn`: "none" (None), "open", "closed"
    connects,   \* number of connections psycopg2.connect has returned
    session,    \* server session of db_conn: [txn, tables]
    idx,        \* position of the for loop in `files`
    log,        \* the records handed to logging.info / logging.error, in order
    jobs        \* one record per call of import_file_to_database, in order

vars == <<cfgFile, directory, dbUp, database, pc, config, files, db_conn,
          connects, session, idx, log, jobs>>

\* ---------------------------------------------------------------- bounds

\* At most this many *.csv files in the target directory.
MaxFiles == 2

\* ---------------------------------------------------------------- inputs

\* Base names of the *.csv files that may be in the directory.
CsvNames == {"shops", "roads", "pubs"}

\* A file of the directory that does not match *.csv.
OtherFile == [stem |-> "notes", ext |-> "txt"]

CsvFile(n) == [stem |-> n, ext |-> "csv"]

Stems == CsvNames \cup {OtherFile.stem}

\* A data row that COPY rejects (a non-numeric or missing osm_id).
BadRow == "bad"

\* The header line of every file.
HeaderLine == "osm_id,area,lon,lat,..."

\* The data rows of a file (after its header line), each row given by its
\* osm_id, the primary key; BadRow is a malformed row.
DataRows(stem) ==
    CASE stem = "shops" -> <<"id1", "id2", "id3">>
      [] stem = "roads" -> <<"id4", BadRow>>
      [] stem = "pubs"  -> <<"id5">>
      [] OTHER          -> <<BadRow>>

\* The lines open(file_path, 'r') yields: the header, then the data rows.
FileLines(stem) == <<HeaderLine>> \o DataRows(stem)

WellFormed(stem) == \A i \in DOMAIN DataRows(stem) : DataRows(stem)[i] /= BadRow

NoTable == [exists |-> FALSE, rows |-> {}]

\* The databases a run may start from: no table, or the table of one file
\* left by an earlier use of the database, empty or holding a row.
InitialDatabases ==
    { [t \in Stems |-> NoTable] } \cup
    { [t \in Stems |-> IF t = n THEN [exists |-> TRUE, rows |-> r] ELSE NoTable] :
        n \in {"shops", "pubs"}, r \in {{}, {"id9"}} }

\* What the --config path may hold.  "unreadable": open() or safe_load fails;
\* otherwise a mapping with or without the keys run() reads; target_path may
\* be null.
ConfigFiles ==
    { [readable |-> FALSE, keys |-> {}, target |-> "null"] } \cup
    { [readable |-> TRUE, keys |-> k, target |-> t] :
        k \in {{"target_path", "db"}, {"db"}, {"target_path"}},
        t \in {"null", "path"} }

\* What the target path may be: not a directory at all (missing, a plain
\* file, unreadable), or a directory with some entries.
Directories ==
    { [isDir |-> FALSE, entries |-> {}] } \cup
    { [isDir |-> TRUE, entries |-> {CsvFile(n) : n \in S} \cup O] :
        S \in {T \in SUBSET CsvNames : Cardinality(T) <= MaxFiles},
        O \in {{}, {OtherFile}} }

\* ---------------------------------------------------------------- logging

Entry(level, msg, file) == [level |-> level, msg |-> msg, file |-> file]

\* run.py:42
LogStarted == Entry("info", "Application started.", "")
\* run.py:75
LogConfigFailed == Entry("error", "Failed to load YAML config file.", "")
\* run.py:58
LogComplete == Entry("info", "Import complete.", "")
\* run.py:61
LogRunError == Entry("error", "An error occurred whilst importing data files into the database", "")
\* run.py:92
LogImporting(stem) == Entry("info", "Importing file into database table", stem)
\* run.py:137
LogImportFailed(stem) == Entry("error", "Failed to import file into database table", stem)

\* ---------------------------------------------------------------- psycopg2

\* Python values the code hands to psycopg2.sql: Path(...).stem is a str;
\* sql.Identifier(...) would be a Composable.
PyStr(s) == [type |-> "str", val |-> s]

ComposableTypes == {"SQL", "Identifier", "Literal", "Placeholder", "Composed"}

\* The attributes of a psycopg2 cursor that the code may call.  commit() is
\* a method of the connection, not of the cursor.
CursorMethods == {"execute", "copy_expert", "close"}

NoExc == "none"

\* conn.cursor(): needs a connection object that is open.
CursorRaises(conn, cursorOk) ==
    CASE conn = "none"   -> "AttributeError"
      [] conn = "closed" -> "InterfaceError"
      [] ~cursorOk       -> "InterfaceError"
      [] OTHER           -> NoExc

\* sql.SQL(template).format(table_name = arg): every argument must be a
\* Composable, or Composed(...) raises TypeError.
SQLFormat(arg) ==
    IF arg.type \in ComposableTypes
    THEN [raised |-> NoExc, table |-> arg.val]
    ELSE [raised |-> "TypeError", table |-> arg.val]

\* cur.execute(CREATE TABLE IF NOT EXISTS table (...)) in the session's
\* transaction: refused in an aborted transaction; a server error aborts the
\* transaction; otherwise the table exists afterwards, and an existing table
\* is left as it is.
Execute(sess, table, createOk) ==
    IF sess.txn = "aborted"
    THEN [raised |-> "InFailedSqlTransaction", sess |-> sess]
    ELSE IF ~createOk
    THEN [raised |-> "ProgrammingError", sess |-> [sess EXCEPT !.txn = "aborted"]]
    ELSE [raised |-> NoExc,
          sess |-> [txn |-> "intrans",
                    tables |-> IF sess.tables[table].exists
                               THEN sess.tables
                               ELSE [sess.tables EXCEPT ![table] =
                                        [exists |-> TRUE, rows |-> {}]]]]

\* cur.commit(): an attribute lookup on the cursor.
CursorCommit == IF "commit" \in CursorMethods THEN NoExc ELSE "AttributeError"

\* Whether COPY accepts these data rows into a table holding `held`: no
\* malformed row, no osm_id twice, none already in the table.
CopyAccepts(rows, held) ==
    /\ \A i \in DOMAIN rows : rows[i] /= BadRow /\ rows[i] \notin held
    /\ \A i, j \in DOMAIN rows : i /= j => rows[i] /= rows[j]

\* cur.copy_expert(COPY table FROM stdin WITH CSV HEADER DELIMITER ',', f):
\* the first line is skipped as the header, the others are inserted, all or
\* none; an error aborts the transaction.
CopyExpert(sess, table, lines) ==
    LET rows == Tail(lines)
    IN  IF sess.txn = "aborted"
        THEN [raised |-> "InFailedSqlTransaction", sess |-> sess]
        ELSE IF ~sess.tables[table].exists
        THEN [raised |-> "UndefinedTable", sess |-> [sess EXCEPT !.txn = "aborted"]]
        ELSE IF ~CopyAccepts(rows, sess.tables[table].rows)
        THEN [raised |-> "DataError", sess |-> [sess EXCEPT !.txn = "aborted"]]
        ELSE [raised |-> NoExc,
              sess |-> [txn |-> "intrans",
                        tables |-> [sess.tables EXCEPT ![table].rows =
                                      @ \cup {rows[i] : i \in DOMAIN rows}]]]

\* ---------------------------------------------------------------- run.py

\* One library call made by import_file_to_database, and whether it returned.
Call(op, exc) == [op |-> op, ok |-> exc = NoExc]

\* The create-table step of import_file_to_database: build the statement,
\* execute it, cur.commit().
Provision(sess, file_name, createOk) ==
    LET q == SQLFormat(file_name)
        e == Execute(sess, q.table, createOk)
    IN  IF q.raised /= NoExc
        THEN [calls |-> <<Call("format_create", q.raised)>>,
              raised |-> q.raised, sess |-> sess]
        ELSE IF e.raised /= NoExc
        THEN [calls |-> <<Call("format_create", NoExc), Call("execute", e.raised)>>,
              raised |-> e.raised, sess |-> e.sess]
        ELSE [calls |-> <<Call("format_create", NoExc), Call("execute", NoExc),
                          Call("commit", CursorCommit)>>,
              raised |-> CursorCommit, sess |-> e.sess]

\* The copy step of import_file_to_database: open the file, build the COPY
\* statement, cur.copy_expert.
Stream(sess, stem, file_name, openOk) ==
    LET q == SQLFormat(file_name)
        c == CopyExpert(sess, q.table, FileLines(stem))
    IN  IF ~openOk
        THEN [calls |-> <<Call("open", "FileNotFoundError")>>,
              raised |-> "FileNotFoundError", sess |-> sess]
        ELSE IF q.raised /= NoExc
        THEN [calls |-> <<Call("open", NoExc), Call("format_copy", q.raised)>>,
              raised |-> q.raised, sess |-> sess]
        ELSE [calls |-> <<Call("open", NoExc), Call("format_copy", NoExc),
                          Call("copy_expert", c.raised)>>,
              raised |-> c.raised, sess |-> c.sess]

\* import_file_to_database with the create-table step in a try block of its
\* own, so that the copy step runs whatever the create-table step raised.
import_file_to_database_streams_anyway(file, conn, sess, cursorOk, createOk, openOk) ==
    LET file_name == PyStr(file.stem)
        curExc == CursorRaises(conn, cursorOk)
        p == Provision(sess, file_name, createOk)
        s == Stream(p.sess, file.stem, file_name, openOk)
        body ==
            IF curExc /= NoExc
            THEN [calls |-> <<Call("cursor", curExc)>>, raised |-> curExc, sess |-> sess]
            ELSE [calls |-> <<Call("cursor", NoExc)>> \o p.calls \o s.calls,
                  raised |-> IF p.raised /= NoExc THEN p.raised ELSE s.raised,
                  sess |-> s.sess]
    IN  [calls   |-> body.calls,
         caught  |-> body.raised,
         escaped |-> IF curExc /= NoExc THEN "UnboundLocalError" ELSE NoExc,
         sess    |-> body.sess,
         log     |-> <<LogImporting(file.stem)>> \o
                     (IF body.raised /= NoExc THEN <<LogImportFailed(file.stem)>> ELSE <<>>)]

\* import_file_to_database(file_path, conn).  The try block opens the cursor,
\* provisions, then streams; `except Exception` logs whatever was raised; the
\* finally block reads `cur`, which is unbound when conn.cursor() raised, so
\* an UnboundLocalError leaves the function then.
\* Result: the library calls made, the exception the except clause caught,
\* the exception that leaves the function, the session, the log records.
import_file_to_database(file, conn, sess, cursorOk, createOk, openOk) ==
    LET file_name == PyStr(file.stem)
        curExc == CursorRaises(conn, cursorOk)
        p == Provision(sess, file_name, createOk)
        s == Stream(p.sess, file.stem, file_name, openOk)
        body ==
            IF curExc /= NoExc
            THEN [calls |-> <<Call("cursor", curExc)>>, raised |-> curExc, sess |-> sess]
            ELSE IF p.raised /= NoExc
            THEN [calls |-> <<Call("cursor", NoExc)>> \o p.calls,
                  raised |-> p.raised, sess |-> p.sess]
            ELSE [calls |-> <<Call("cursor", NoExc)>> \o p.calls \o s.calls,
                  raised |-> s.raised, sess |-> s.sess]
    IN  [calls   |-> body.calls,
         caught  |-> body.raised,
         escaped |-> IF curExc /= NoExc THEN "UnboundLocalError" ELSE NoExc,
         sess    |-> body.sess,
         log     |-> <<LogImporting(file.stem)>> \o
                     (IF body.raised /= NoExc THEN <<LogImportFailed(file.stem)>> ELSE <<>>)]

\* read_yaml_config(config_path): the mapping, or, when open() or safe_load
\* raises, an error record and an implicit None.
read_yaml_config(cf) ==
    IF cf.readable
    THEN [log |-> <<>>, value |-> "mapping"]
    ELSE [log |-> <<LogConfigFailed>>, value |-> "None"]

\* list_files that raises for a path that is no directory.
list_files_strict(search_folder, dir) ==
    IF search_folder = "null"
    THEN [raised |-> "TypeError", files |-> {}]
    ELSE IF ~dir.isDir
    THEN [raised |-> "FileNotFoundError", files |-> {}]
    ELSE [raised |-> NoExc, files |-> {e \in dir.entries : e.ext = "csv"}]

\* list_files without the "*.csv" pattern: every entry of the directory.
list_files_unfiltered(search_folder, dir) ==
    IF search_folder = "null"
    THEN [raised |-> "TypeError", files |-> {}]
    ELSE [raised |-> NoExc, files |-> IF dir.isDir THEN dir.entries ELSE {}]

\* list_files(search_folder): Path(None) raises TypeError; Path.glob("*.csv")
\* yields the matching entries of a directory and nothing for a path that is
\* no directory.
list_files(search_folder, dir) ==
    IF search_folder = "null"
    THEN [raised |-> "TypeError", files |-> {}]
    ELSE [raised |-> NoExc,
          files |-> IF dir.isDir THEN {e \in dir.entries : e.ext = "csv"} ELSE {}]

\* The orders in which glob may yield a set of files.
Orderings(S) ==
    {q \in [1..Cardinality(S) -> S] : \A i, j \in DOMAIN q : i /= j => q[i] /= q[j]}

NoSession == [txn |-> "closed", tables |-> [t \in Stems |-> NoTable]]

Init ==
    /\ cfgFile \in ConfigFiles
    /\ directory \in Directories
    /\ dbUp \in BOOLEAN
    /\ database \in InitialDatabases
    /\ pc = "start"
    /\ config = "unset"
    /\ files = <<>>
    /\ db_conn = "none"
    /\ connects = 0
    /\ session = NoSession
    /\ idx = 1
    /\ log = <<>>
    /\ jobs = <<>>

\* run(), lines 42-47: log the start, db_conn = None, read the configuration.
ReadConfig ==
    /\ pc = "start"
    /\ LET r == read_yaml_config(cfgFile)
       IN  /\ log' = <<LogStarted>> \o r.log
           /\ config' = r.value
    /\ pc' = "config_read"
    /\ UNCHANGED <<cfgFile, directory, dbUp, database, files, db_conn, connects,
                   session, idx, jobs>>

\* run(), line 49, outside the try block: config['target_path'] raises on
\* None (TypeError) and on a mapping without the key (KeyError); whatever is
\* raised here leaves run().
ListFiles ==
    /\ pc = "config_read"
    /\ LET r == list_files(cfgFile.target, directory)
       IN  IF config = "None" \/ "target_path" \notin cfgFile.keys \/ r.raised /= NoExc
           THEN pc' = "crashed" /\ files' = files
           ELSE pc' = "listed" /\ files' \in Orderings(r.files)
    /\ UNCHANGED <<cfgFile, directory, dbUp, database, config, db_conn, connects,
                   session, idx, log, jobs>>

\* Connect with the connection attempt in a try block of its own: a failure
\* is swallowed and the for loop runs with db_conn = None.
ConnectFallsThrough ==
    /\ pc = "listed"
    /\ IF "db" \in cfgFile.keys /\ dbUp
       THEN /\ db_conn' = "open"
            /\ connects' = connects + 1
            /\ session' = [txn |-> "idle", tables |-> database]
       ELSE UNCHANGED <<db_conn, connects, session>>
    /\ pc' = "loop"
    /\ UNCHANGED <<cfgFile, directory, dbUp, database, config, files, idx, log, jobs>>

\* run(), line 53, inside the try block: config['db'] may raise KeyError and
\* connect may raise; both go to the except clause with db_conn still None.
Connect ==
    /\ pc = "listed"
    /\ IF "db" \in cfgFile.keys /\ dbUp
       THEN /\ db_conn' = "open"
            /\ connects' = connects + 1
            /\ session' = [txn |-> "idle", tables |-> database]
            /\ pc' = "loop"
       ELSE /\ pc' = "except"
            /\ UNCHANGED <<db_conn, connects, session>>
    /\ UNCHANGED <<cfgFile, directory, dbUp, database, config, files, idx, log, jobs>>

\* run(), lines 55-56: one iteration of the for loop.
ImportFile ==
    /\ pc = "loop"
    /\ idx <= Len(files)
    /\ \E cursorOk, createOk, openOk \in BOOLEAN :
         LET r == import_file_to_database(files[idx], db_conn, session,
                                          cursorOk, createOk, openOk)
         IN  /\ jobs' = Append(jobs, [file    |-> files[idx].stem,
                                      before  |-> database[files[idx].stem],
                                      calls   |-> r.calls,
                                      caught  |-> r.caught,
                                      escaped |-> r.escaped])
             /\ log' = log \o r.log
             /\ session' = r.sess
             /\ IF r.escaped /= NoExc
                THEN pc' = "except" /\ idx' = idx
                ELSE pc' = "loop" /\ idx' = idx + 1
    /\ UNCHANGED <<cfgFile, directory, dbUp, database, config, files, db_conn, connects>>

\* run(), line 58: the loop is exhausted.
LoopDone ==
    /\ pc = "loop"
    /\ idx > Len(files)
    /\ log' = Append(log, LogComplete)
    /\ pc' = "finally"
    /\ UNCHANGED <<cfgFile, directory, dbUp, database, config, files, db_conn,
                   connects, session, idx, jobs>>

\* run(), lines 60-61.
RunExcept ==
    /\ pc = "except"
    /\ log' = Append(log, LogRunError)
    /\ pc' = "finally"
    /\ UNCHANGED <<cfgFile, directory, dbUp, database, config, files, db_conn,
                   connects, session, idx, jobs>>

\* run() with db_conn.close() as the last statement of the try block instead
\* of in a finally block: reached only when nothing was raised.
RunFinallyCloseOnSuccessOnly ==
    /\ pc = "finally"
    /\ IF db_conn /= "none" /\ log[Len(log)] = LogComplete
       THEN db_conn' = "closed" /\ session' = NoSession
       ELSE UNCHANGED <<db_conn, session>>
    /\ database' = database
    /\ pc' = "done"
    /\ UNCHANGED <<cfgFile, directory, dbUp, config, files, connects, idx, log, jobs>>

\* run(), lines 63-65: close the connection if there is one.  Nothing was
\* committed on it (run.py never calls conn.commit()), so the server rolls
\* the open transaction back and the database stays as it was.
RunFinally ==
    /\ pc = "finally"
    /\ IF db_conn /= "none"
       THEN db_conn' = "closed" /\ session' = NoSession
       ELSE UNCHANGED <<db_conn, session>>
    /\ database' = database
    /\ pc' = "done"
    /\ UNCHANGED <<cfgFile, directory, dbUp, config, files, connects, idx, log, jobs>>

Next ==
    \/ ReadConfig
    \/ ListFiles
    \/ Connect
    \/ ImportFile
    \/ LoopDone
    \/ RunExcept
    \/ RunFinally

Spec == Init /\ [][Next]_vars

Terminated == pc \in {"done", "crashed"}

\* ---------------------------------------------------------------- claims

ProvisionOps == {"format_create", "execute", "commit"}
StreamOps == {"open", "format_copy", "copy_expert"}

\* The job's create-table step raised.
ProvisionFailed(j) == \E i \in DOMAIN j.calls : j.calls[i].op \in ProvisionOps /\ ~j.calls[i].ok

\* The job's copy step was started.
StreamAttempted(j) == \E i \in DOMAIN j.calls : j.calls[i].op \in StreamOps

\* The job ended with its table provisioned and its rows copied.
JobSucceeded(j) ==
    /\ j.caught = NoExc /\ j.escaped = NoExc
    /\ \E i \in DOMAIN j.calls : j.calls[i] = Call("copy_expert", NoExc)

JobFailed(j) == j.caught /= NoExc \/ j.escaped /= NoExc

\* COPY has no reason to reject the job's file: its rows are well formed and
\* none was in the table before.
Importable(j) ==
    /\ WellFormed(j.file)
    /\ \A i \in DOMAIN DataRows(j.file) : DataRows(j.file)[i] \notin j.before.rows

Count(seq, P(_)) == Cardinality({i \in DOMAIN seq : P(seq[i])})

\* The configuration lets run() reach the connection step.
ConfigUsable ==
    cfgFile.readable /\ "target_path" \in cfgFile.keys /\ cfgFile.target /= "null"

ConnectionObtainable == "db" \in cfgFile.keys /\ dbUp

\* C1: once the connection is acquired, no exception raised while a file is
\* processed leaves import_file_to_database, and a run that has ended has
\* attempted every discovered file.
C1_FileFailureNeverAbortsBatch ==
    /\ \A i \in DOMAIN jobs : jobs[i].escaped = NoExc
    /\ (pc = "done" /\ connects > 0) => Len(jobs) = Len(files)

\* C2: a well-formed file processed after a file whose import failed still
\* succeeds: its table is provisioned and its rows are loaded.  (Stated for
\* jobs whose cursor was opened, so that the failure of C1 is not what
\* refutes it.)
C2_LaterWellFormedFileSucceeds ==
    \A i, k \in DOMAIN jobs :
        (i < k /\ JobFailed(jobs[i]) /\ Importable(jobs[k])
           /\ jobs[i].calls[1].ok /\ jobs[k].calls[1].ok) => JobSucceeded(jobs[k])

\* C3: the connection is acquired at most once, it is open only between the
\* connect call and the finally block, and no run ends with it open.
C3_ConnectionReleased ==
    /\ connects <= 1
    /\ db_conn = "open" => pc \in {"loop", "except", "finally"}
    /\ Terminated => db_conn /= "open"
    /\ (pc = "done" /\ connects = 1) => db_conn = "closed"

\* C3 witness: a run that acquired the connection, had an exception escape
\* the file loop, and ended with the connection closed.
C3_Witness ==
    /\ pc = "done" /\ connects = 1 /\ db_conn = "closed"
    /\ \E i \in DOMAIN jobs : jobs[i].escaped /= NoExc

\* C4: after the run has ended, the table of every importable file that was
\* processed holds exactly its R data rows more than before.
C4_ImportAddsExactlyRRows ==
    pc = "done" =>
        \A i \in DOMAIN jobs :
            Importable(jobs[i]) =>
                /\ database[jobs[i].file].exists
                /\ Cardinality(database[jobs[i].file].rows) =
                       Cardinality(jobs[i].before.rows) + Len(DataRows(jobs[i].file))

\* C5: in every job, a call of the copy step comes only after a create-table
\* execute that returned, no create-table call comes after a copy-step call,
\* and a job whose create-table step raised makes no copy-step call.
C5_ProvisionBeforeStream ==
    \A n \in DOMAIN jobs :
        LET c == jobs[n].calls
        IN  /\ \A i \in DOMAIN c :
                   c[i].op \in StreamOps =>
                       /\ \E k \in 1..(i - 1) : c[k] = Call("execute", NoExc)
                       /\ \A k \in 1..(i - 1) : c[k].ok
            /\ \A i, k \in DOMAIN c :
                   (c[i].op \in StreamOps /\ c[k].op \in ProvisionOps) => k < i
            /\ ProvisionFailed(jobs[n]) => ~StreamAttempted(jobs[n]) /\ JobFailed(jobs[n])

\* C5 witness: a job whose create-table step raised and that made no call of
\* the copy step.
C5_Witness ==
    \E n \in DOMAIN jobs :
        /\ ProvisionFailed(jobs[n])
        /\ ~StreamAttempted(jobs[n])
        /\ jobs[n].caught /= NoExc

\* C6: when the configuration cannot be read or the connection cannot be
\* obtained, import_file_to_database is never called and no session exists;
\* an unreadable configuration ends the run before the connection step, and
\* a failed connection is logged as an error before the run ends.
C6_FatalStartupProcessesNoFile ==
    /\ (~cfgFile.readable \/ ~ConnectionObtainable) =>
           jobs = <<>> /\ session = NoSession /\ connects = 0
    /\ ~cfgFile.readable => pc \in {"start", "config_read", "crashed"}
    /\ (pc = "done" /\ ~ConnectionObtainable) => Count(log, LAMBDA e : e = LogRunError) = 1

\* C6 witness: a run that discovered files, failed to connect, and ended.
C6_Witness ==
    /\ pc = "done" /\ ConfigUsable /\ ~dbUp
    /\ files /= <<>>
    /\ jobs = <<>>
    /\ log[Len(log)] = LogRunError

C8_ProvisionExistingTableNoError ==
    \A n \in DOMAIN jobs :
        (jobs[n].before.exists /\ \E i \in DOMAIN jobs[n].calls :
                                     jobs[n].calls[i].op \in ProvisionOps)
            => ~ProvisionFailed(jobs[n])

\* C9: when the run has ended, every processed file has exactly one outcome
\* record (a success or a failure record naming it), a failed file has no
\* success record, and the log holds exactly one end-of-run record.
C9_OneOutcomePerFileOneSummary ==
    Terminated =>
        /\ \A n \in DOMAIN jobs :
               /\ Count(log, LAMBDA e : e.file = jobs[n].file /\ e /= LogImporting(e.file)) = 1
               /\ JobFailed(jobs[n]) =>
                      Count(log, LAMBDA e : e = LogImportFailed(jobs[n].file)) = 1
        /\ Count(log, LAMBDA e : e \in {LogComplete, LogRunError}) = 1

\* C10: with a usable configuration and a reachable server, a run over an
\* existing directory without *.csv files ends normally, having called
\* import_file_to_database for nothing, with the start and completion
\* records as its whole log, the connection closed and the database as it was.
C10_EmptyBatchCompletes ==
    (ConfigUsable /\ ConnectionObtainable /\ directory.isDir
       /\ \A e \in directory.entries : e.ext /= "csv") =>
        /\ pc /= "crashed" /\ pc /= "except"
        /\ jobs = <<>>
        /\ pc = "done" =>
               /\ log = <<LogStarted, LogComplete>>
               /\ connects = 1 /\ db_conn = "closed"
               /\ session = NoSession

\* C10 witness: such a run, over a directory that holds only a file that
\* does not match the pattern, has ended.
C10_Witness ==
    /\ ConfigUsable /\ ConnectionObtainable
    /\ directory = [isDir |-> TRUE, entries |-> {OtherFile}]
    /\ pc = "done"
    /\ log[Len(log)] = LogComplete

====
